---- MODULE Spec2Model ----
(***************************************************************************)
(* Model of src/tiled/scriptedmapformat.cpp: the bridge between script     *)
(* supplied map format objects and the host's MapFormat interface.         *)
(*                                                                         *)
(* Text is a sequence of characters and file content a sequence of bytes,  *)
(* both over the small alphabet Chars; "LF" and "CR" stand for the line    *)
(* feed and the carriage return.  Error strings are TLA+ strings.          *)
(***************************************************************************)
EXTENDS Integers, Sequences, FiniteSets, TLC

\* ---------------------------------------------------------------- bounds
\* Longest text / byte array a script returns, longest file on disk at start.
MaxLen == 1
\* Number of ScriptedMapFormat objects that can be constructed.
MaxFormats == 1
\* Number of Map objects that can be allocated.
MaxMaps == 3
\* Longest file name supportsFile() is asked about.
MaxName == 3

\* ---------------------------------------------------------------- values
Chars == {"A", "LF", "CR"}

RECURSIVE SeqsUpTo(_, _)
SeqsUpTo(S, n) ==
    IF n = 0 THEN {<<>>}
    ELSE LET shorter == SeqsUpTo(S, n - 1)
         IN shorter \cup {Append(s, c) : s \in {t \in shorter : Len(t) = n - 1}, c \in S}

Contents == SeqsUpTo(Chars, MaxLen)

\* A file that does not exist.
NoFile == <<"absent">>

Paths == {"map.custom"}

FormatIds == 1..MaxFormats
MapIds == 1..MaxMaps

\* The map the script environment owns and may hand out in an EditableMap.
ScriptMap == 1
\* The map of the host's document, the one write() is called with.
DocumentMap == 2

\* QJSValue, by the classification the code applies to it: an Error object has
\* a name and a message, a string or an ArrayBuffer has data, a wrapped QObject
\* of type EditableMap has the id of its Map.
JSValue(kind, name, message, data, obj) ==
    [kind |-> kind, name |-> name, message |-> message, data |-> data, obj |-> obj]
Undefined == JSValue("undefined", "", "", <<>>, 0)
Number == JSValue("number", "", "", <<>>, 0)
Function == JSValue("function", "", "", <<>>, 0)
JSString(t) == JSValue("string", "", "", t, 0)
ArrayBuffer(b) == JSValue("bytes", "", "", b, 0)
JSError(name, message) == JSValue("error", name, message, <<>>, 0)
EditableMapValue(m) == JSValue("map", "", "", <<>>, m)

ErrorNames == {"Error"}
ErrorMessages == {"", "boom"}

\* Every value a call of a script function can hand back.
ScriptResults ==
    {JSString(t) : t \in Contents} \cup {ArrayBuffer(b) : b \in Contents}
    \cup {JSError(n, m) : n \in ErrorNames, m \in ErrorMessages}
    \cup {Undefined, Number, EditableMapValue(ScriptMap)}

\* Values a descriptor property can hold: a string, a function, or neither.
PropertyValues == {Undefined, Function, JSString(<<"A">>)}

\* The objects a script can pass to registerMapFormat.
Descriptors == [name : PropertyValues \cup {Number}, extension : PropertyValues \cup {Number},
                read : PropertyValues, write : PropertyValues]

NoObject == [name |-> Undefined, extension |-> Undefined,
             read |-> Undefined, write |-> Undefined]

\* ---------------------------------------------------------------- messages
InvalidNameMsg == "Invalid map format object (requires string 'name' property)"
InvalidExtensionMsg == "Invalid map format object (requires string 'extension' property)"
InvalidFunctionsMsg == "Invalid map format object (requires a 'write' and/or 'read' function property)"
InvalidReturnMsg == "Invalid return value for 'write' (string or ArrayBuffer expected)"
CouldNotOpenMsg == "Could not open file for writing."
\* QFileDevice::errorString() of a device in an error state.
DeviceErrorMsg == "I/O error"

VARIABLES
    registry,   \* PluginManager's objects: the set of registered formats
    life,       \* per format: "none" | "alive" | "dead"
    mObject,    \* per format: ScriptedMapFormat::mObject, the script's descriptor
    mError,     \* per format: ScriptedMapFormat::mError
    validated,  \* the last validation: its return value and the messages it threw
    files,      \* the file system: path -> content | NoFile
    pc,         \* position of the one thread inside read() / write()
    cur,        \* locals of the running read() / write() call
    maps,       \* the Map objects: id -> content | "free"
    owned,      \* the maps the host owns: its document and what read() returned
    platform    \* "unix" | "windows": the line ending the text mode writes

vars == <<registry, life, mObject, mError, validated, files, pc, cur, maps, owned, platform>>

\* ---------------------------------------------------------------- script values
\* QJSValue::isString, QJSValue::isCallable.
isString(v) == v.kind = "string"
isCallable(v) == v.kind = "function"

\* QJSValue::toString: an Error object converts as Error.prototype.toString
\* does (name, ": ", message, either part dropped when empty); a string
\* converts to itself.  A value of another kind converts to a text that
\* stands here under the name of the kind ("undefined" is the text itself).
toString(v) ==
    IF v.kind = "error"
    THEN IF v.name = "" THEN v.message
         ELSE IF v.message = "" THEN v.name
         ELSE v.name \o ": " \o v.message
    ELSE IF v.kind = "string" THEN v.data
    ELSE v.kind

\* ScriptManager::checkError: true exactly for an Error value.
checkError(v) == v.kind = "error"

\* A null QByteArray.
NullBytes == <<"null">>

\* qjsvalue_cast<QByteArray>: the bytes of an ArrayBuffer, null for the rest.
toByteArray(v) == IF v.kind = "bytes" THEN v.data ELSE NullBytes

\* A call that throws an error when the value called is no function.
CallResultsThrowing(f, results) ==
    IF isCallable(f) THEN results ELSE {JSError("Error", "boom")}

\* QJSValue::call: a function runs and hands back one of `results`, anything
\* else is not called and yields undefined.
CallResults(f, results) == IF isCallable(f) THEN results ELSE {Undefined}

\* ---------------------------------------------------------------- text mode
RECURSIVE WriteNewlines(_, _)
\* QTextStream writing to a device opened with QIODevice::Text: on Windows
\* every line feed goes out as carriage return + line feed.
WriteNewlines(text, plat) ==
    IF text = <<>> THEN <<>>
    ELSE (IF Head(text) = "LF" /\ plat = "windows" THEN <<"CR", "LF">> ELSE <<Head(text)>>)
         \o WriteNewlines(Tail(text), plat)

RECURSIVE ReadNewlines(_)
\* QTextStream reading from a device opened with QIODevice::Text: every
\* carriage return is dropped.
ReadNewlines(bytes) ==
    IF bytes = <<>> THEN <<>>
    ELSE (IF Head(bytes) = "CR" THEN <<>> ELSE <<Head(bytes)>>) \o ReadNewlines(Tail(bytes))

RECURSIVE Prefixes(_)
Prefixes(b) == IF b = <<>> THEN {<<>>} ELSE {b} \cup Prefixes(SubSeq(b, 1, Len(b) - 1))

\* ---------------------------------------------------------------- calls
NoCall ==
    [op |-> "none", self |-> 0, fileName |-> "", arguments |-> <<>>,
     resultValue |-> Undefined, isString |-> FALSE, bytes |-> NullBytes,
     staged |-> NoFile, deviceError |-> FALSE, ret |-> "none", model |-> 0,
     mode |-> "", pre |-> NoFile, hadError |-> FALSE, steps |-> <<>>,
     fileError |-> "", fileData |-> NoFile, answer |-> <<>>,
     fileOp |-> "", fileOpened |-> FALSE]

MapContents == {"m0", "m1"}
Options == {0, 1}

\* ---------------------------------------------------------------- registration
\* validateMapFormatObject with the extension checked before the name.
validateWrongOrder(value) ==
    IF ~isString(value.extension)
    THEN [ok |-> FALSE, thrown |-> <<InvalidExtensionMsg>>]
    ELSE IF ~isString(value.name)
    THEN [ok |-> FALSE, thrown |-> <<InvalidNameMsg>>]
    ELSE IF ~isCallable(value.write) /\ ~isCallable(value.read)
    THEN [ok |-> FALSE, thrown |-> <<InvalidFunctionsMsg>>]
    ELSE [ok |-> TRUE, thrown |-> <<>>]

\* validateMapFormatObject without the check of the name.
validateNoNameCheck(value) ==
    IF ~isString(value.extension)
    THEN [ok |-> FALSE, thrown |-> <<InvalidExtensionMsg>>]
    ELSE IF ~isCallable(value.write) /\ ~isCallable(value.read)
    THEN [ok |-> FALSE, thrown |-> <<InvalidFunctionsMsg>>]
    ELSE [ok |-> TRUE, thrown |-> <<>>]

\* ScriptedMapFormat::validateMapFormatObject: the return value and the
\* messages handed to ScriptManager::throwError, in order.
validateMapFormatObject(value) ==
    IF ~isString(value.name)
    THEN [ok |-> FALSE, thrown |-> <<InvalidNameMsg>>]
    ELSE IF ~isString(value.extension)
    THEN [ok |-> FALSE, thrown |-> <<InvalidExtensionMsg>>]
    ELSE IF ~isCallable(value.write) /\ ~isCallable(value.read)
    THEN [ok |-> FALSE, thrown |-> <<InvalidFunctionsMsg>>]
    ELSE [ok |-> TRUE, thrown |-> <<>>]

\* ScriptedMapFormat::ScriptedMapFormat: keeps the object and adds itself to
\* the plugin manager.
Construct(self, object) ==
    /\ life' = [life EXCEPT ![self] = "alive"]
    /\ mObject' = [mObject EXCEPT ![self] = object]
    /\ mError' = [mError EXCEPT ![self] = ""]
    /\ registry' = registry \cup {self}

\* tiled.registerMapFormat(shortName, object): validates the object and
\* constructs the format only when the validation passed.
RegisterMapFormat(self, object) ==
    /\ pc = "idle"
    /\ life[self] = "none"
    /\ LET v == validateMapFormatObject(object)
       IN /\ validated' = v
          /\ IF v.ok
             THEN Construct(self, object)
             ELSE UNCHANGED <<life, mObject, mError, registry>>
    /\ UNCHANGED <<files, pc, cur, maps, owned, platform>>

\* A destructor without PluginManager::removeObject(this).
DestructNoRemove(self) ==
    /\ pc = "idle"
    /\ life[self] = "alive"
    /\ life' = [life EXCEPT ![self] = "dead"]
    /\ mObject' = [mObject EXCEPT ![self] = NoObject]
    /\ mError' = [mError EXCEPT ![self] = ""]
    /\ UNCHANGED <<registry, validated, files, pc, cur, maps, owned, platform>>

\* ScriptedMapFormat::~ScriptedMapFormat.
Destruct(self) ==
    /\ pc = "idle"
    /\ life[self] = "alive"
    /\ registry' = registry \ {self}
    /\ life' = [life EXCEPT ![self] = "dead"]
    /\ mObject' = [mObject EXCEPT ![self] = NoObject]
    /\ mError' = [mError EXCEPT ![self] = ""]
    /\ UNCHANGED <<validated, files, pc, cur, maps, owned, platform>>

\* The script assigns a property of an object it registered earlier.
ScriptSetProperty(self, key, v) ==
    /\ pc = "idle"
    /\ life[self] = "alive"
    /\ mObject[self][key] # v
    /\ mObject' = [mObject EXCEPT ![self][key] = v]
    /\ UNCHANGED <<registry, life, mError, validated, files, pc, cur, maps, owned, platform>>

\* ---------------------------------------------------------------- queries
\* The characters of file names and extensions, and the names asked about.
NameChars == {"A", "a", "."}
FileNames == SeqsUpTo(NameChars, MaxName)
ExtensionTexts == {<<"A">>, <<"a">>, <<"A", "a">>}

\* property(...).toString() as a sequence of characters; the text of a value
\* that is no string is one token.
toText(v) == IF isString(v) THEN toString(v) ELSE <<toString(v)>>

\* QString::endsWith, case sensitive.
endsWith(s, suffix) ==
    /\ Len(s) >= Len(suffix)
    /\ SubSeq(s, Len(s) - Len(suffix) + 1, Len(s)) = suffix

\* capabilities() that takes every property that is set for a function.
capabilitiesIfDefined(object) ==
    (IF object.read # Undefined THEN {"Read"} ELSE {})
    \cup (IF object.write # Undefined THEN {"Write"} ELSE {})

\* ScriptedMapFormat::capabilities, of the object as it is now.
capabilities(object) ==
    (IF isCallable(object.read) THEN {"Read"} ELSE {})
    \cup (IF isCallable(object.write) THEN {"Write"} ELSE {})

\* ScriptedMapFormat::nameFilter: "%1 (*.%2)" with the name and the extension.
nameFilter(object) ==
    toText(object.name) \o <<" ", "(", "*", ".">> \o toText(object.extension) \o <<")">>

\* QString::toLower on the characters of file names.
toLower(s) == [i \in DOMAIN s |-> IF s[i] = "A" THEN "a" ELSE s[i]]

\* supportsFile() comparing without regard to case.
supportsFileIgnoreCase(object, fileName) ==
    endsWith(toLower(fileName), toLower(<<".">> \o toText(object.extension)))

\* ScriptedMapFormat::supportsFile.
supportsFile(object, fileName) ==
    endsWith(fileName, <<".">> \o toText(object.extension))

\* A query of a format: a const method, answered from mObject at once.
Query(self, op, arguments, answer) ==
    /\ pc = "idle"
    /\ life[self] = "alive"
    /\ cur' = [NoCall EXCEPT !.op = op, !.self = self, !.arguments = arguments,
                             !.answer = answer]
    /\ pc' = "done"
    /\ UNCHANGED <<registry, life, mObject, mError, validated, files, maps, owned, platform>>

Capabilities(self) == Query(self, "capabilities", <<>>, capabilities(mObject[self]))
NameFilter(self) == Query(self, "nameFilter", <<>>, nameFilter(mObject[self]))
SupportsFile(self, fileName) ==
    Query(self, "supportsFile", <<fileName>>, supportsFile(mObject[self], fileName))

\* ---------------------------------------------------------------- SaveFile
\* SaveFile::open: a staging device, empty, beside the destination.
SaveFileOpen(call) == [call EXCEPT !.staged = <<>>]

\* SaveFile::commit, succeeding: the staged content replaces the destination.
SaveFileCommit(fs, call) == [fs EXCEPT ![call.fileName] = call.staged]

\* ---------------------------------------------------------------- write
\* WriteCall without mError.clear().
WriteCallNoClear(self, map, fileName, options) ==
    /\ pc = "idle"
    /\ life[self] = "alive"
    /\ map \in owned
    /\ \E result \in CallResults(mObject[self].write, ScriptResults) :
          cur' = [NoCall EXCEPT !.op = "write", !.self = self, !.fileName = fileName,
                                !.arguments = <<map, fileName, options>>,
                                !.resultValue = result, !.pre = files[fileName],
                                !.hadError = (mError[self] # ""),
                                !.steps = <<"call">>]
    /\ pc' = "w_called"
    /\ UNCHANGED <<registry, life, mObject, mError, validated, files, maps, owned, platform>>

\* ScriptedMapFormat::write up to the return of the script's write function.
WriteCall(self, map, fileName, options) ==
    /\ pc = "idle"
    /\ life[self] = "alive"
    /\ map \in owned
    /\ mError' = [mError EXCEPT ![self] = ""]
    /\ \E result \in CallResults(mObject[self].write, ScriptResults) :
          cur' = [NoCall EXCEPT !.op = "write", !.self = self, !.fileName = fileName,
                                !.arguments = <<map, fileName, options>>,
                                !.resultValue = result, !.pre = files[fileName],
                                !.hadError = (mError[self] # ""),
                                !.steps = <<"call">>]
    /\ pc' = "w_called"
    /\ UNCHANGED <<registry, life, mObject, validated, files, maps, owned, platform>>

\* WriteCheckError that calls the script a second time when the first call threw.
WriteCheckErrorRetry ==
    /\ pc = "w_called"
    /\ IF checkError(cur.resultValue) /\ Len(cur.steps) = 1
       THEN /\ \E result \in CallResults(mObject[cur.self].write, ScriptResults) :
                  cur' = [cur EXCEPT !.resultValue = result, !.steps = Append(@, "call")]
            /\ pc' = "w_called"
            /\ UNCHANGED mError
       ELSE IF checkError(cur.resultValue)
       THEN /\ mError' = [mError EXCEPT ![cur.self] = toString(cur.resultValue)]
            /\ cur' = [cur EXCEPT !.ret = "false"]
            /\ pc' = "done"
       ELSE /\ pc' = "w_classify"
            /\ cur' = [cur EXCEPT !.steps = Append(@, "noerror")]
            /\ UNCHANGED mError
    /\ UNCHANGED <<registry, life, mObject, validated, files, maps, owned, platform>>

\* if (checkError(resultValue)) { mError = resultValue.toString(); return false; }
WriteCheckError ==
    /\ pc = "w_called"
    /\ IF checkError(cur.resultValue)
       THEN /\ mError' = [mError EXCEPT ![cur.self] = toString(cur.resultValue)]
            /\ cur' = [cur EXCEPT !.ret = "false"]
            /\ pc' = "done"
       ELSE /\ pc' = "w_classify"
            /\ cur' = [cur EXCEPT !.steps = Append(@, "noerror")]
            /\ UNCHANGED mError
    /\ UNCHANGED <<registry, life, mObject, validated, files, maps, owned, platform>>

\* WriteClassify without the test for a null byte array.
WriteClassifyNoCheck ==
    /\ pc = "w_classify"
    /\ LET str == isString(cur.resultValue)
           bytes == IF cur.resultValue.kind = "bytes" THEN cur.resultValue.data ELSE <<>>
       IN /\ cur' = [cur EXCEPT !.isString = str, !.bytes = bytes,
                                !.steps = Append(@, IF str THEN "text" ELSE "binary")]
          /\ pc' = "w_open"
    /\ UNCHANGED <<registry, life, mObject, mError, validated, files, maps, owned, platform>>

\* WriteClassify that reads a bit of the options as "store an empty file when
\* the result is neither a string nor an ArrayBuffer".
WriteClassifyByOptions ==
    /\ pc = "w_classify"
    /\ LET str == isString(cur.resultValue)
           lenient == cur.arguments[3] % 2 = 1
           bytes == IF str THEN NullBytes
                    ELSE IF lenient /\ cur.resultValue.kind # "bytes" THEN <<>>
                    ELSE toByteArray(cur.resultValue)
       IN IF ~str /\ bytes = NullBytes
          THEN /\ mError' = [mError EXCEPT ![cur.self] = InvalidReturnMsg]
               /\ cur' = [cur EXCEPT !.ret = "false"]
               /\ pc' = "done"
          ELSE /\ cur' = [cur EXCEPT !.isString = str, !.bytes = bytes,
                                     !.steps = Append(@, IF str THEN "text" ELSE "binary")]
               /\ pc' = "w_open"
               /\ UNCHANGED mError
    /\ UNCHANGED <<registry, life, mObject, validated, files, maps, owned, platform>>

\* The classification of the result: a string, an ArrayBuffer, or invalid.
WriteClassify ==
    /\ pc = "w_classify"
    /\ LET str == isString(cur.resultValue)
           bytes == IF str THEN NullBytes ELSE toByteArray(cur.resultValue)
       IN IF ~str /\ bytes = NullBytes
          THEN /\ mError' = [mError EXCEPT ![cur.self] = InvalidReturnMsg]
               /\ cur' = [cur EXCEPT !.ret = "false"]
               /\ pc' = "done"
          ELSE /\ cur' = [cur EXCEPT !.isString = str, !.bytes = bytes,
                                     !.steps = Append(@, IF str THEN "text" ELSE "binary")]
               /\ pc' = "w_open"
               /\ UNCHANGED mError
    /\ UNCHANGED <<registry, life, mObject, validated, files, maps, owned, platform>>

\* SaveFile file(fileName); file.open(mode), which the file system can refuse.
WriteOpen ==
    /\ pc = "w_open"
    /\ \E ok \in BOOLEAN :
          IF ~ok
          THEN /\ mError' = [mError EXCEPT ![cur.self] = CouldNotOpenMsg]
               /\ cur' = [cur EXCEPT !.ret = "false"]
               /\ pc' = "done"
          ELSE /\ cur' = [SaveFileOpen(cur) EXCEPT
                            !.mode = IF cur.isString THEN "text" ELSE "binary",
                            !.steps = Append(@, "open")]
               /\ pc' = "w_write"
               /\ UNCHANGED mError
    /\ UNCHANGED <<registry, life, mObject, validated, files, maps, owned, platform>>

\* WriteData on a plain QFile on the destination instead of a SaveFile.
WriteDataInPlace ==
    /\ pc = "w_write"
    /\ LET data == IF cur.isString
                   THEN WriteNewlines(toString(cur.resultValue), platform)
                   ELSE cur.bytes
       IN \/ /\ cur' = [cur EXCEPT !.staged = data, !.steps = Append(@, "staged")]
             /\ files' = [files EXCEPT ![cur.fileName] = data]
          \/ \E part \in Prefixes(data) :
                /\ cur' = [cur EXCEPT !.staged = part, !.deviceError = TRUE]
                /\ files' = [files EXCEPT ![cur.fileName] = part]
    /\ pc' = "w_commit"
    /\ UNCHANGED <<registry, life, mObject, mError, validated, maps, owned, platform>>

\* WriteData with a QTextStream that is still alive, unflushed, at the commit.
WriteDataUnflushed ==
    /\ pc = "w_write"
    /\ LET data == IF cur.isString THEN <<>> ELSE cur.bytes
       IN \/ cur' = [cur EXCEPT !.staged = data, !.steps = Append(@, "staged")]
          \/ \E part \in Prefixes(data) :
                cur' = [cur EXCEPT !.staged = part, !.deviceError = TRUE]
    /\ pc' = "w_commit"
    /\ UNCHANGED <<registry, life, mObject, mError, validated, files, maps, owned, platform>>

\* The text through a QTextStream, or the bytes, into file.device(); a device
\* error leaves any prefix of the data in the staging device.
WriteData ==
    /\ pc = "w_write"
    /\ LET data == IF cur.isString
                   THEN WriteNewlines(toString(cur.resultValue), platform)
                   ELSE cur.bytes
       IN \/ cur' = [cur EXCEPT !.staged = data, !.steps = Append(@, "staged")]
          \/ \E part \in Prefixes(data) :
                cur' = [cur EXCEPT !.staged = part, !.deviceError = TRUE]
    /\ pc' = "w_commit"
    /\ UNCHANGED <<registry, life, mObject, mError, validated, files, maps, owned, platform>>

\* WriteCommit that ignores the result of file.commit().
WriteCommitUnchecked ==
    /\ pc = "w_commit"
    /\ \E committed \in BOOLEAN :
          IF cur.deviceError
          THEN /\ mError' = [mError EXCEPT ![cur.self] = DeviceErrorMsg]
               /\ cur' = [cur EXCEPT !.ret = "false", !.staged = NoFile]
               /\ UNCHANGED files
          ELSE /\ files' = IF committed THEN SaveFileCommit(files, cur) ELSE files
               /\ cur' = [cur EXCEPT !.ret = "true", !.staged = NoFile,
                                     !.steps = IF committed THEN Append(@, "commit") ELSE @]
               /\ UNCHANGED mError
    /\ pc' = "done"
    /\ UNCHANGED <<registry, life, mObject, validated, maps, owned, platform>>

\* if (file.error() != NoError || !file.commit()) { mError = ...; return false; }
\* return true;
WriteCommit ==
    /\ pc = "w_commit"
    /\ \E committed \in BOOLEAN :
          IF cur.deviceError \/ ~committed
          THEN /\ mError' = [mError EXCEPT ![cur.self] = DeviceErrorMsg]
               /\ cur' = [cur EXCEPT !.ret = "false", !.staged = NoFile]
               /\ UNCHANGED files
          ELSE /\ files' = SaveFileCommit(files, cur)
               /\ cur' = [cur EXCEPT !.ret = "true", !.staged = NoFile,
                                     !.steps = Append(@, "commit")]
               /\ UNCHANGED mError
    /\ pc' = "done"
    /\ UNCHANGED <<registry, life, mObject, validated, maps, owned, platform>>

\* ---------------------------------------------------------------- ScriptFile
\* QFile::open(ReadOnly): refused for a missing file, and for an existing one
\* whenever the file system says so.
CanOpen(fileName) == IF files[fileName] = NoFile THEN {FALSE} ELSE BOOLEAN

\* What an opened file yields: QTextStream(&file).readAll(), file.readAll().
ReadAllText(fileName) == ReadNewlines(files[fileName])
ReadAllBytes(fileName) == files[fileName]

\* What a call of the ScriptFile leaves: the member called, whether the open
\* succeeded, the value returned, and the handle's error.
FileCall(op, opened, data, error) ==
    [cur EXCEPT !.fileOp = op, !.fileOpened = opened, !.fileData = data,
                !.fileError = error]

\* readAsText that returns what the call before it returned when the open fails.
ReadAsTextStale ==
    /\ pc = "r_script"
    /\ \E opened \in CanOpen(cur.fileName) :
          IF opened
          THEN cur' = FileCall("readAsText", TRUE, ReadAllText(cur.fileName), cur.fileError)
          ELSE cur' = FileCall("readAsText", FALSE, cur.fileData, DeviceErrorMsg)
    /\ UNCHANGED <<registry, life, mObject, mError, validated, files, pc, maps, owned, platform>>

\* ScriptFile::readAsText, called by the running read script on its argument.
ReadAsText ==
    /\ pc = "r_script"
    /\ \E opened \in CanOpen(cur.fileName) :
          IF opened
          THEN cur' = FileCall("readAsText", TRUE, ReadAllText(cur.fileName), cur.fileError)
          ELSE cur' = FileCall("readAsText", FALSE, <<>>, DeviceErrorMsg)
    /\ UNCHANGED <<registry, life, mObject, mError, validated, files, pc, maps, owned, platform>>

\* readAsBinary that clears the handle's error when the open succeeds.
ReadAsBinaryClearing ==
    /\ pc = "r_script"
    /\ \E opened \in CanOpen(cur.fileName) :
          IF opened
          THEN cur' = FileCall("readAsBinary", TRUE, ReadAllBytes(cur.fileName), "")
          ELSE cur' = FileCall("readAsBinary", FALSE, <<>>, DeviceErrorMsg)
    /\ UNCHANGED <<registry, life, mObject, mError, validated, files, pc, maps, owned, platform>>

\* ScriptFile::readAsBinary, called by the running read script on its argument.
ReadAsBinary ==
    /\ pc = "r_script"
    /\ \E opened \in CanOpen(cur.fileName) :
          IF opened
          THEN cur' = FileCall("readAsBinary", TRUE, ReadAllBytes(cur.fileName), cur.fileError)
          ELSE cur' = FileCall("readAsBinary", FALSE, <<>>, DeviceErrorMsg)
    /\ UNCHANGED <<registry, life, mObject, mError, validated, files, pc, maps, owned, platform>>

\* ---------------------------------------------------------------- maps
\* Map::clone: a new Map object with the content of the original.
CloneMap(ms, original, copy) == [ms EXCEPT ![copy] = ms[original]]

FreeMaps == {m \in MapIds : maps[m] = "free"}
NewMap == CHOOSE m \in FreeMaps : \A n \in FreeMaps : m <= n

\* The script changes its map.
ScriptEditMap(content) ==
    /\ pc = "idle"
    /\ maps[ScriptMap] # content
    /\ maps' = [maps EXCEPT ![ScriptMap] = content]
    /\ UNCHANGED <<registry, life, mObject, mError, validated, files, pc, cur, owned, platform>>

\* The host changes a map it owns.
HostEditMap(m, content) ==
    /\ pc = "idle"
    /\ m \in owned
    /\ maps[m] # content
    /\ maps' = [maps EXCEPT ![m] = content]
    /\ UNCHANGED <<registry, life, mObject, mError, validated, files, pc, cur, owned, platform>>

\* The host deletes a map it owns (the unique_ptr read() returned goes away).
HostDeleteMap(m) ==
    /\ pc = "idle"
    /\ m \in owned \ {DocumentMap}
    /\ maps' = [maps EXCEPT ![m] = "free"]
    /\ owned' = owned \ {m}
    /\ UNCHANGED <<registry, life, mObject, mError, validated, files, pc, cur, platform>>

\* ---------------------------------------------------------------- read
\* ReadCall without mError.clear().
ReadCallNoClear(self, fileName) ==
    /\ pc = "idle"
    /\ life[self] = "alive"
    /\ FreeMaps # {}
    /\ cur' = [NoCall EXCEPT !.op = "read", !.self = self, !.fileName = fileName,
                             !.arguments = <<fileName>>, !.pre = files[fileName],
                             !.hadError = (mError[self] # ""),
                             !.steps = <<"call">>]
    /\ pc' = IF isCallable(mObject[self].read) THEN "r_script" ELSE "r_called"
    /\ UNCHANGED <<registry, life, mObject, mError, validated, files, maps, owned, platform>>

\* ScriptedMapFormat::read up to the call of the script's read function; a
\* read property that is no function returns undefined at once.
ReadCall(self, fileName) ==
    /\ pc = "idle"
    /\ life[self] = "alive"
    /\ FreeMaps # {}
    /\ mError' = [mError EXCEPT ![self] = ""]
    /\ cur' = [NoCall EXCEPT !.op = "read", !.self = self, !.fileName = fileName,
                             !.arguments = <<fileName>>, !.pre = files[fileName],
                             !.hadError = (mError[self] # ""),
                             !.steps = <<"call">>]
    /\ pc' = IF isCallable(mObject[self].read) THEN "r_script" ELSE "r_called"
    /\ UNCHANGED <<registry, life, mObject, validated, files, maps, owned, platform>>

\* The script's read function returns or throws.
ReadScriptReturns(result) ==
    /\ pc = "r_script"
    /\ cur' = [cur EXCEPT !.resultValue = result]
    /\ pc' = "r_called"
    /\ UNCHANGED <<registry, life, mObject, mError, validated, files, maps, owned, platform>>

\* ReadFinish that returns nullptr for an error without keeping its text.
ReadFinishUncaptured ==
    /\ pc = "r_called"
    /\ IF ~checkError(cur.resultValue) /\ cur.resultValue.kind = "map"
       THEN /\ maps' = CloneMap(maps, cur.resultValue.obj, NewMap)
            /\ cur' = [cur EXCEPT !.ret = "model", !.model = NewMap]
       ELSE /\ cur' = [cur EXCEPT !.ret = "null"]
            /\ UNCHANGED maps
    /\ pc' = "done"
    /\ UNCHANGED <<registry, life, mObject, mError, validated, files, owned, platform>>

\* ReadFinish that returns the EditableMap's own map instead of a clone.
ReadFinishNoClone ==
    /\ pc = "r_called"
    /\ IF checkError(cur.resultValue)
       THEN /\ mError' = [mError EXCEPT ![cur.self] = toString(cur.resultValue)]
            /\ cur' = [cur EXCEPT !.ret = "null"]
       ELSE IF cur.resultValue.kind = "map"
       THEN /\ cur' = [cur EXCEPT !.ret = "model", !.model = cur.resultValue.obj]
            /\ UNCHANGED mError
       ELSE /\ cur' = [cur EXCEPT !.ret = "null"]
            /\ UNCHANGED mError
    /\ pc' = "done"
    /\ UNCHANGED <<registry, life, mObject, validated, files, maps, owned, platform>>

\* The rest of ScriptedMapFormat::read: the error check, then the clone of an
\* EditableMap's map, or nullptr.
ReadFinish ==
    /\ pc = "r_called"
    /\ IF checkError(cur.resultValue)
       THEN /\ mError' = [mError EXCEPT ![cur.self] = toString(cur.resultValue)]
            /\ cur' = [cur EXCEPT !.ret = "null"]
            /\ UNCHANGED maps
       ELSE IF cur.resultValue.kind = "map"
       THEN /\ maps' = CloneMap(maps, cur.resultValue.obj, NewMap)
            /\ cur' = [cur EXCEPT !.ret = "model", !.model = NewMap]
            /\ UNCHANGED mError
       ELSE /\ cur' = [cur EXCEPT !.ret = "null"]
            /\ UNCHANGED <<mError, maps>>
    /\ pc' = "done"
    /\ UNCHANGED <<registry, life, mObject, validated, files, owned, platform>>

\* read() or write() hands its result to the caller, who owns a returned map.
Return ==
    /\ pc = "done"
    /\ pc' = "idle"
    /\ owned' = IF cur.ret = "model" THEN owned \cup {cur.model} ELSE owned
    /\ cur' = NoCall
    /\ UNCHANGED <<registry, life, mObject, mError, validated, files, maps, platform>>

\* ---------------------------------------------------------------- specification
\* The state after start-up: no format registered, the script's map and the
\* host's document map exist, no call is running.
InitWith(fileContents, mapContents, platforms) ==
    /\ registry = {}
    /\ life = [f \in FormatIds |-> "none"]
    /\ mObject = [f \in FormatIds |-> NoObject]
    /\ mError = [f \in FormatIds |-> ""]
    /\ validated = [ok |-> TRUE, thrown |-> <<>>]
    /\ files \in [Paths -> fileContents]
    /\ pc = "idle"
    /\ cur = NoCall
    /\ \E c \in mapContents, d \in mapContents :
          maps = [m \in MapIds |-> IF m = ScriptMap THEN c ELSE IF m = DocumentMap THEN d ELSE "free"]
    /\ owned = {DocumentMap}
    /\ platform \in platforms

\* Objects that pass the validation, with plain read and write properties.
FormatObjects ==
    {d \in Descriptors : /\ isString(d.name) /\ isString(d.extension)
                         /\ d.read \in {Undefined, Function}
                         /\ d.write \in {Undefined, Function}
                         /\ (isCallable(d.read) \/ isCallable(d.write))}

\* One result of each kind the read pipeline tells apart.
ReadResults ==
    {JSError(n, m) : n \in ErrorNames, m \in ErrorMessages}
    \cup {Undefined, Number, JSString(<<"A">>), ArrayBuffer(<<"A">>),
          EditableMapValue(ScriptMap)}

\* The assignments a script makes to the functions of a registered object,
\* and to any of its properties.
FunctionAssignments == {"read", "write"} \X {Undefined, Function}
PropertyAssignments ==
    ({"name", "extension"} \X (PropertyValues \cup {Number}))
    \cup ({"read", "write"} \X PropertyValues)

Lifecycle(objects, assignments) ==
    \/ \E self \in FormatIds, object \in objects : RegisterMapFormat(self, object)
    \/ \E self \in FormatIds : Destruct(self)
    \/ \E self \in FormatIds, a \in assignments : ScriptSetProperty(self, a[1], a[2])

WriteSteps ==
    \/ \E self \in FormatIds, m \in MapIds, fileName \in Paths, options \in Options :
          WriteCall(self, m, fileName, options)
    \/ WriteCheckError
    \/ WriteClassify
    \/ WriteOpen
    \/ WriteData
    \/ WriteCommit

ReadSteps(results) ==
    \/ \E self \in FormatIds, fileName \in Paths : ReadCall(self, fileName)
    \/ \E result \in results : ReadScriptReturns(result)
    \/ ReadFinish

FileSteps ==
    \/ ReadAsText
    \/ ReadAsBinary

MapSteps ==
    \/ \E c \in MapContents : ScriptEditMap(c)
    \/ \E m \in MapIds, c \in MapContents : HostEditMap(m, c)
    \/ \E m \in MapIds : HostDeleteMap(m)

QuerySteps ==
    \/ \E self \in FormatIds : Capabilities(self)
    \/ \E self \in FormatIds : NameFilter(self)
    \/ \E self \in FormatIds, fileName \in FileNames : SupportsFile(self, fileName)

\* The whole program.
Init == InitWith(Contents \cup {NoFile}, MapContents, {"unix", "windows"})

Next ==
    \/ Lifecycle(Descriptors, FunctionAssignments)
    \/ WriteSteps
    \/ ReadSteps(ScriptResults)
    \/ FileSteps
    \/ MapSteps
    \/ QuerySteps
    \/ Return

Spec == Init /\ [][Next]_vars

\* Registration and the life of the formats, with every kind of object.
InitRegister == InitWith({NoFile}, {"m0"}, {"unix"})

NextRegister ==
    Lifecycle(Descriptors, PropertyAssignments)

SpecRegister == InitRegister /\ [][NextRegister]_vars

\* The write pipeline of registered formats.
InitWrite == InitWith(Contents \cup {NoFile}, {"m0"}, {"unix", "windows"})

NextWrite ==
    \/ Lifecycle(FormatObjects, FunctionAssignments)
    \/ WriteSteps
    \/ Return

SpecWrite == InitWrite /\ [][NextWrite]_vars

\* The read pipeline of registered formats, and the maps it clones.
InitRead == InitWith({NoFile}, MapContents, {"unix"})

NextRead ==
    \/ Lifecycle(FormatObjects, FunctionAssignments)
    \/ ReadSteps(ReadResults)
    \/ MapSteps
    \/ Return

SpecRead == InitRead /\ [][NextRead]_vars

\* The queries of registered formats whose objects the script keeps changing.
QueryAssignments ==
    ({"read", "write"} \X PropertyValues)
    \cup ({"extension"} \X ({Undefined} \cup {JSString(e) : e \in ExtensionTexts}))

InitQuery == InitWith({NoFile}, {"m0"}, {"unix"})

NextQuery ==
    \/ Lifecycle(FormatObjects, QueryAssignments)
    \/ QuerySteps
    \/ Return

SpecQuery == InitQuery /\ [][NextQuery]_vars

\* Registrations, reads, writes and queries, one after another.
InitError == InitWith({NoFile}, {"m0"}, {"unix"})

\* One result of each kind the write pipeline tells apart.
WriteResults ==
    {Undefined, JSString(<<"A">>), ArrayBuffer(<<"A">>), JSError("Error", "boom")}

\* The queries, with one file name.
QueryOnce ==
    \/ \E self \in FormatIds : Capabilities(self)
    \/ \E self \in FormatIds : NameFilter(self)
    \/ \E self \in FormatIds : SupportsFile(self, <<"a", ".", "A">>)

NextError ==
    \/ Lifecycle(Descriptors, FunctionAssignments)
    \/ WriteSteps /\ cur'.resultValue \in WriteResults
    \/ ReadSteps(ReadResults)
    \/ QueryOnce
    \/ Return

SpecError == InitError /\ [][NextError]_vars

\* The read pipeline with the files its script reads through the ScriptFile.
InitFile == InitWith(Contents \cup {NoFile}, {"m0"}, {"unix"})

NextFile ==
    \/ Lifecycle(FormatObjects, FunctionAssignments)
    \/ ReadSteps(ReadResults)
    \/ FileSteps
    \/ Return

SpecFile == InitFile /\ [][NextFile]_vars

\* ---------------------------------------------------------------- properties
Range(q) == {q[i] : i \in DOMAIN q}

WriteRunning == cur.op = "write"
WriteDone == pc = "done" /\ cur.op = "write"
ReadDone == pc = "done" /\ cur.op = "read"

\* The steps of a write() that went through, for a text and for a binary result.
StepsOfSuccess(kind) == <<"call", "noerror", kind, "open", "staged", "commit">>

\* One of the points at which write() can fail has been hit.
WriteFailurePoint ==
    \/ checkError(cur.resultValue)
    \/ cur.resultValue.kind \notin {"string", "bytes"}
    \/ "open" \notin Range(cur.steps)
    \/ cur.deviceError
    \/ "commit" \notin Range(cur.steps)

\* C1: a write() that fails (script error, invalid result, staging not opened,
\* staged write failed, commit failed) returns false, and at every point of a
\* write() call that has not committed successfully the destination file holds
\* what it held (or is absent as it was) before the call.
C1_FailedWriteLeavesDestination ==
    WriteRunning =>
        /\ cur.ret # "true" => files[cur.fileName] = cur.pre
        /\ pc = "done" /\ WriteFailurePoint => cur.ret = "false"

\* A write() whose data was staged in full and whose commit then failed, over
\* an existing file with other content.
C1_Witness ==
    /\ WriteDone
    /\ cur.ret = "false"
    /\ cur.steps = <<"call", "noerror", "text", "open", "staged">>
    /\ cur.pre # NoFile
    /\ cur.resultValue.data # cur.pre
    /\ files[cur.fileName] = cur.pre

\* C2: write() returns true only after, in this order, a script call that did
\* not raise, a result classified as text or binary, a successful open of the
\* staging device, a staged write without device error and a successful commit.
C2_TrueOnlyAfterCommit ==
    WriteRunning /\ cur.ret = "true" =>
        /\ ~checkError(cur.resultValue)
        /\ cur.resultValue.kind \in {"string", "bytes"}
        /\ ~cur.deviceError
        /\ cur.steps = StepsOfSuccess(IF isString(cur.resultValue) THEN "text" ELSE "binary")

C2_Witness == WriteDone /\ cur.ret = "true" /\ cur.steps = StepsOfSuccess("binary")

NotCR(c) == c # "CR"
IsLF(c) == c = "LF"

\* C3 as claimed: after a write() that returned true the destination holds
\* exactly the script's output, and readAsText (text output) or readAsBinary
\* (binary output) on that path yields exactly the value the script returned.
C3_ExactRoundTrip ==
    WriteDone /\ cur.ret = "true" =>
        /\ files[cur.fileName] = cur.resultValue.data
        /\ isString(cur.resultValue) => ReadAllText(cur.fileName) = cur.resultValue.data
        /\ ~isString(cur.resultValue) => ReadAllBytes(cur.fileName) = cur.resultValue.data

\* C3 amended: after a write() that returned true, a binary output is the exact
\* content of the destination and what readAsBinary yields; a text output is
\* the exact content of the destination where the text mode writes a line feed
\* as itself (the platform is not Windows, or the text has no line feed), on
\* Windows the destination has a carriage return more before each line feed,
\* and readAsText yields the text without its carriage returns, so the text
\* itself when it has none; what the file held before never shows.
C3_RoundTripModuloNewlines ==
    WriteDone /\ cur.ret = "true" =>
        LET out == cur.resultValue.data
        IN IF isString(cur.resultValue)
           THEN /\ (platform = "unix" \/ "LF" \notin Range(out)) => files[cur.fileName] = out
                /\ "CR" \notin Range(out) => ReadAllText(cur.fileName) = out
                /\ ReadAllText(cur.fileName) = SelectSeq(out, NotCR)
                /\ SelectSeq(files[cur.fileName], NotCR) = SelectSeq(out, NotCR)
                /\ Len(files[cur.fileName]) =
                      Len(out) + (IF platform = "windows" THEN Len(SelectSeq(out, IsLF)) ELSE 0)
           ELSE /\ files[cur.fileName] = out
                /\ ReadAllBytes(cur.fileName) = out

\* A text without carriage return committed over an existing file with other
\* content, and read back in text mode.
C3_Witness ==
    /\ WriteDone
    /\ cur.ret = "true"
    /\ isString(cur.resultValue)
    /\ cur.resultValue.data # <<>>
    /\ "CR" \notin Range(cur.resultValue.data)
    /\ cur.pre \notin {NoFile, cur.resultValue.data}
    /\ ReadAllText(cur.fileName) = cur.resultValue.data

\* C4: a result that is no error is a text (staging opened in text mode, the
\* text written), or an ArrayBuffer (staging opened without text mode, the
\* exact bytes written), or invalid: then write() returns false with the
\* invalid-return-value message, never opens the staging device and leaves
\* the destination as it was.
C4_Classification ==
    WriteRunning /\ ~checkError(cur.resultValue) /\ pc \in {"w_open", "w_write", "w_commit", "done"} =>
        LET v == cur.resultValue
            written == pc = "w_commit" /\ ~cur.deviceError
        IN CASE v.kind = "string" ->
                  /\ cur.steps[3] = "text"
                  /\ pc # "w_open" /\ "open" \in Range(cur.steps) => cur.mode = "text"
                  /\ written /\ platform = "unix" => cur.staged = v.data
                  /\ written => ReadNewlines(cur.staged) = ReadNewlines(v.data)
             [] v.kind = "bytes" ->
                  /\ cur.steps[3] = "binary"
                  /\ pc # "w_open" /\ "open" \in Range(cur.steps) => cur.mode = "binary"
                  /\ written => cur.staged = v.data
             [] OTHER ->
                  /\ pc = "done"
                  /\ cur.ret = "false"
                  /\ mError[cur.self] = InvalidReturnMsg
                  /\ cur.steps = <<"call", "noerror">>
                  /\ cur.mode = ""
                  /\ files[cur.fileName] = cur.pre

\* A write() whose script returned a number, over an existing file.
C4_Witness ==
    /\ WriteDone
    /\ cur.resultValue = Number
    /\ cur.ret = "false"
    /\ mError[cur.self] = InvalidReturnMsg
    /\ cur.pre # NoFile

\* C5 as claimed: when the read function raises an error with message M,
\* read() returns no model and lastError is M.
C5_LastErrorIsMessage ==
    ReadDone /\ checkError(cur.resultValue) =>
        /\ cur.ret = "null"
        /\ mError[cur.self] = cur.resultValue.message

\* The text of an Error object: its name, ": ", its message.
ErrorText(e) ==
    IF e.name = "" THEN e.message
    ELSE IF e.message = "" THEN e.name
    ELSE e.name \o ": " \o e.message

\* C5 amended: when the read function raises an error, read() returns no model
\* and lastError is the error converted to a string, the error's name, ": "
\* and its message M ("Error: M"; the name alone when M is empty), whatever
\* lastError held before the call.
C5_LastErrorIsErrorString ==
    ReadDone /\ checkError(cur.resultValue) =>
        /\ cur.ret = "null"
        /\ cur.model = 0
        /\ mError[cur.self] = ErrorText(cur.resultValue)

\* A read() whose script raised Error("boom"), on a format whose lastError was
\* set by an earlier call.
C5_Witness ==
    /\ ReadDone
    /\ cur.resultValue = JSError("Error", "boom")
    /\ cur.hadError
    /\ cur.ret = "null"
    /\ mError[cur.self] = "Error: boom"

\* C6: whenever read() returns no model and whenever write() returns false,
\* lastError is a non-empty string at the return.
C6_FailureHasError ==
    pc = "done" /\ (cur.ret = "null" \/ cur.ret = "false") => mError[cur.self] # ""

\* C7: when the read function returns without raising and the value is no
\* EditableMap, read() returns no model and lastError is empty at the return,
\* also when it was set before the call.
C7_SilentNonMapResult ==
    ReadDone /\ ~checkError(cur.resultValue) /\ cur.resultValue.kind # "map" =>
        /\ cur.ret = "null"
        /\ cur.model = 0
        /\ mError[cur.self] = ""

\* A read() whose script returned a number, on a format whose lastError was
\* set by an earlier call.
C7_Witness ==
    /\ ReadDone
    /\ cur.resultValue = Number
    /\ cur.hadError
    /\ cur.ret = "null"
    /\ mError[cur.self] = ""

\* At the return of a read() whose script returned an EditableMap: the model is
\* a new object, not the script's map and none the host had, with the content
\* of the script's map.
CloneAtReturn ==
    ReadDone /\ ~checkError(cur.resultValue) /\ cur.resultValue.kind = "map" =>
        /\ cur.ret = "model"
        /\ cur.model # cur.resultValue.obj
        /\ cur.model \notin owned
        /\ maps[cur.model] # "free"
        /\ maps[cur.model] = maps[cur.resultValue.obj]

\* A step that changes the script's map changes no map of the host, and a step
\* that changes a map of the host leaves the script's map alone.
ChangesStayApart ==
    /\ maps'[ScriptMap] # maps[ScriptMap] => \A m \in owned : maps'[m] = maps[m]
    /\ (\E m \in owned : maps'[m] # maps[m]) => maps'[ScriptMap] = maps[ScriptMap]

\* C8: when the read function returns an EditableMap, read() returns a new map
\* the host owns, equal in content to the script's map at the return, a
\* different object, and no later change to one of the two changes the other.
C8_ReadReturnsDeepClone ==
    /\ [](CloneAtReturn /\ ScriptMap \notin owned)
    /\ [][ChangesStayApart]_vars

\* The host holds a map read() returned, and it differs by now from the
\* script's map it was cloned from.
C8_Witness ==
    \E m \in owned \ {DocumentMap} : maps[m] # "free" /\ maps[m] # maps[ScriptMap]

\* What the validation requires of an object.
HasStringName(d) == d.name.kind = "string"
HasStringExtension(d) == d.extension.kind = "string"
HasFunction(d) == d.read.kind = "function" \/ d.write.kind = "function"

\* The one message a rejected object is reported with.
FirstViolation(d) ==
    IF ~HasStringName(d) THEN InvalidNameMsg
    ELSE IF ~HasStringExtension(d) THEN InvalidExtensionMsg
    ELSE InvalidFunctionsMsg

\* What every registration that changes the state changes: the outcome of the
\* last validation, or a format that now exists.
RegistrationStep ==
    \/ validated' # validated
    \/ \E self \in FormatIds : life[self] = "none" /\ life'[self] = "alive"

\* C9: the validation returns true iff name is a string, extension is a string
\* and read or write is callable; when it returns false it throws exactly one
\* error, that of the first violated requirement in the order name, extension,
\* functions, and when it returns true it throws none.
C9_Validate ==
    [][RegistrationStep =>
          \A self \in FormatIds, d \in Descriptors :
              RegisterMapFormat(self, d) =>
                  /\ validated'.ok = (HasStringName(d) /\ HasStringExtension(d) /\ HasFunction(d))
                  /\ validated'.ok => validated'.thrown = <<>>
                  /\ ~validated'.ok => validated'.thrown = <<FirstViolation(d)>>]_vars

\* An object with a string name but no string extension has been rejected.
C9_Witness ==
    /\ validated = [ok |-> FALSE, thrown |-> <<InvalidExtensionMsg>>]
    /\ registry = {}

\* C10: a format enters the registry only with an object that has a string
\* name, a string extension and a callable read or write at that moment and
\* that the validation accepted, and a format is registered exactly while it is
\* alive: there is no constructed format outside the registry and no registry
\* entry without a format.
C10_OnlyValidRegistered ==
    /\ [](\A self \in FormatIds : self \in registry <=> life[self] = "alive")
    /\ [][\A self \in registry' \ registry :
             /\ validated'.ok
             /\ HasStringName(mObject'[self])
             /\ HasStringExtension(mObject'[self])
             /\ HasFunction(mObject'[self])]_vars

\* An object without a string name has been rejected: no format was
\* constructed for it and the registry is empty.
C10_Witness ==
    /\ validated = [ok |-> FALSE, thrown |-> <<InvalidNameMsg>>]
    /\ \A self \in FormatIds : life[self] = "none" /\ self \notin registry

\* The call that has just answered.
Answered(op) == pc = "done" /\ cur.op = op

\* C11: capabilities() is computed from the object as it is at the query: Read
\* is in the answer iff read is callable then, Write iff write is callable
\* then, whatever the script assigned since the registration; an object with
\* only a callable read answers exactly {Read}.
C11_CapabilitiesDerived ==
    Answered("capabilities") =>
        LET object == mObject[cur.self]
        IN /\ cur.answer \subseteq {"Read", "Write"}
           /\ "Read" \in cur.answer <=> object.read.kind = "function"
           /\ "Write" \in cur.answer <=> object.write.kind = "function"
           /\ object.read.kind = "function" /\ object.write.kind # "function"
                 => cur.answer = {"Read"}

\* A format answers with no capability at all: at its registration read or
\* write was callable, so the answer shows what the script assigned since.
C11_Witness ==
    /\ Answered("capabilities")
    /\ cur.answer = {}
    /\ mObject[cur.self].read.kind = "string"

\* The file name is some text, a dot, and the extension.
HasExtension(fileName, extension) ==
    \E k \in 0..Len(fileName) : fileName = SubSeq(fileName, 1, k) \o <<".">> \o extension

\* C12: supportsFile(path) is true iff path ends, compared case-sensitively,
\* with "." followed by the current extension of the object (a string).
C12_SupportsFile ==
    Answered("supportsFile") /\ mObject[cur.self].extension.kind = "string" =>
        cur.answer = HasExtension(cur.arguments[1], mObject[cur.self].extension.data)

\* With the extension "A", the name ".a" (the extension in the other case) is
\* not supported.
C12_Witness ==
    /\ Answered("supportsFile")
    /\ mObject[cur.self].extension = JSString(<<"A">>)
    /\ cur.arguments[1] = <<".", "a">>
    /\ cur.answer = FALSE

\* A read or write call of format f begins in this step.
CallStarts(f) ==
    /\ pc = "idle"
    /\ pc' # "idle"
    /\ cur'.op \in {"read", "write"}
    /\ cur'.self = f

\* A read or write call of format f is between its start and its return.
CallRuns(f) ==
    /\ pc \notin {"idle", "done"}
    /\ cur.op \in {"read", "write"}
    /\ cur.self = f

\* The call that has returned was a read or a write that succeeded.
CallSucceeded ==
    \/ WriteDone /\ cur.ret = "true"
    \/ ReadDone /\ cur.ret = "model"

\* C13: the start of every read and every write empties lastError of the
\* format; apart from that only the running read or write of the format
\* assigns it, so capabilities(), nameFilter() and supportsFile() leave it as
\* it is; after a read or write that succeeded it is empty, whatever an earlier
\* call left in it.
C13_LastErrorOfLastCall ==
    /\ [](CallSucceeded => mError[cur.self] = "")
    /\ [][\A f \in FormatIds :
             /\ CallStarts(f) => mError'[f] = ""
             /\ (life[f] = "alive" /\ life'[f] = "alive" /\ ~CallStarts(f) /\ ~CallRuns(f))
                   => mError'[f] = mError[f]]_vars

\* A write succeeded with lastError empty on a format whose lastError was set
\* when the call began.
C13_Witness ==
    /\ WriteDone
    /\ cur.ret = "true"
    /\ cur.hadError
    /\ mError[cur.self] = ""

\* The read script has called a member of its ScriptFile.
FileCalled == pc = "r_script" /\ cur.fileOp # ""

\* C14 as stated: a call whose open succeeds returns the content of the file as
\* it is stored, and a call whose open fails returns an empty value and leaves
\* the I/O error in the handle's lastError.
C14_FullContent ==
    FileCalled =>
        IF cur.fileOpened
        THEN cur.fileData = files[cur.fileName]
        ELSE cur.fileData = <<>> /\ cur.fileError = DeviceErrorMsg

\* C14: each call opens the path anew, so its result depends on its own open
\* only.  When the open succeeds readAsBinary() returns the bytes of the file
\* and readAsText() returns its text without the carriage returns; when the
\* open fails the call returns an empty value with the I/O error in the
\* handle's lastError, and the script goes on running: nothing is thrown.
C14_ScriptFileReads ==
    FileCalled =>
        /\ files[cur.fileName] = cur.pre
        /\ cur.resultValue = NoCall.resultValue
        /\ IF cur.fileOpened
           THEN /\ cur.pre # NoFile
                /\ cur.fileOp = "readAsBinary" => cur.fileData = cur.pre
                /\ cur.fileOp = "readAsText" => cur.fileData = SelectSeq(cur.pre, NotCR)
           ELSE /\ cur.fileData = <<>>
                /\ cur.fileError = DeviceErrorMsg

\* readAsText() fails to open a file that is not empty: it returns an empty
\* text and the handle holds the error.
C14_Witness ==
    /\ FileCalled
    /\ cur.fileOp = "readAsText"
    /\ ~cur.fileOpened
    /\ cur.pre \notin {NoFile, <<>>}
    /\ cur.fileData = <<>>
    /\ cur.fileError = DeviceErrorMsg

\* C19: no call of the ScriptFile empties its lastError: a call assigns it only
\* when its open fails, so once it is set it stays set through every later
\* call of the handle, the successful ones included.
C19_FileErrorNeverCleared ==
    [][pc = "r_script" /\ pc' = "r_script" =>
          /\ cur.fileError # "" => cur'.fileError # ""
          /\ cur'.fileError # cur.fileError => ~cur'.fileOpened]_vars

\* The most recent call opened the file and returned its content, and the
\* handle's lastError is still set by an earlier call.
C19_Witness ==
    /\ FileCalled
    /\ cur.fileOpened
    /\ cur.fileData # <<>>
    /\ cur.fileError # ""

\* Format f is constructed in this step: the registry gains it, and it only.
Constructed(f) ==
    /\ life[f] = "none"
    /\ life'[f] = "alive"
    /\ f \notin registry
    /\ registry' = registry \cup {f}

\* Format f is destroyed in this step: the registry loses it, and it only.
Destroyed(f) ==
    /\ life[f] = "alive"
    /\ life'[f] = "dead"
    /\ f \in registry
    /\ registry' = registry \ {f}

\* C15: the registry holds a format exactly while it is alive, that is
\* constructed and not yet destroyed; only a construction adds an entry, the
\* format constructed, and only a destruction removes one, the format
\* destroyed; reads, writes, queries, assignments of the script and rejected
\* registrations leave the registry and the lives as they are.
C15_RegistryIsLifetime ==
    /\ [](registry = {f \in FormatIds : life[f] = "alive"})
    /\ [][(registry' # registry \/ life' # life) =>
             /\ pc = "idle" /\ pc' = "idle"
             /\ \E f \in FormatIds :
                   /\ Constructed(f) \/ Destroyed(f)
                   /\ \A g \in FormatIds \ {f} : life'[g] = life[g]]_vars

\* A format has been destroyed and is out of the registry, after a write of
\* it that stored a file.
C15_Witness ==
    /\ \E f \in FormatIds : life[f] = "dead" /\ f \notin registry
    /\ \E p \in Paths : files[p] # NoFile

\* The steps of a write() so far are the first steps of a successful one.
StepsInOrder ==
    \E kind \in {"text", "binary"} :
        \E n \in 1..Len(StepsOfSuccess(kind)) :
            cur.steps = SubSeq(StepsOfSuccess(kind), 1, n)

\* The number of times the call has invoked the script's function.
Invocations == Cardinality({i \in DOMAIN cur.steps : cur.steps[i] = "call"})

\* The running write() finds a failure in this step.
WriteFails ==
    /\ cur.op = "write"
    /\ pc \notin {"idle", "done"}
    /\ mError'[cur.self] # ""

\* C16: a read() or write() invokes the script's function once; a write()
\* takes the steps of the pipeline in order, and the step in which it finds a
\* failure (script error, invalid result, staging not opened, staged write or
\* commit failed) is its last: it returns false there, with no further step, no
\* second invocation and the files as they are; a read() returns right after
\* its one invocation.
C16_NoRetry ==
    /\ [](cur.op \in {"read", "write"} => Invocations = 1)
    /\ [](cur.op = "write" => StepsInOrder)
    /\ [](cur.op = "write" /\ cur.deviceError => "commit" \notin Range(cur.steps))
    /\ [][WriteFails =>
             /\ pc' = "done"
             /\ cur'.ret = "false"
             /\ cur'.steps = cur.steps
             /\ cur'.resultValue = cur.resultValue
             /\ files' = files]_vars
    /\ [][cur.op = "read" /\ pc = "r_called" =>
             pc' = "done" /\ cur'.steps = <<"call">>]_vars

\* A write() has returned false after a staged write that failed: the script
\* was called once and no commit was tried.
C16_Witness ==
    /\ WriteDone
    /\ cur.ret = "false"
    /\ cur.deviceError
    /\ cur.steps = <<"call", "noerror", "binary", "open">>
    /\ mError[cur.self] = DeviceErrorMsg

\* What a write() returns, leaves in lastError and leaves in the destination,
\* from the script's result, the file before the call, the platform and the
\* steps the file system let it take; the options are no part of it.
WriteOutcome ==
    LET failed(msg) == <<"false", msg, cur.pre>>
    IN IF checkError(cur.resultValue) THEN failed(ErrorText(cur.resultValue))
       ELSE IF cur.resultValue.kind \notin {"string", "bytes"} THEN failed(InvalidReturnMsg)
       ELSE IF "open" \notin Range(cur.steps) THEN failed(CouldNotOpenMsg)
       ELSE IF "commit" \notin Range(cur.steps) THEN failed(DeviceErrorMsg)
       ELSE <<"true", "",
              IF cur.resultValue.kind = "string"
              THEN WriteNewlines(cur.resultValue.data, platform)
              ELSE cur.resultValue.data>>

\* C18: write() calls the script with the map, the path and the options as
\* given, in this order, and read() with the ScriptFile of the path alone; what
\* a write() returns, its lastError and the destination file follow from the
\* script's result and the file system alone, so two calls that differ in
\* their options only end alike.
C18_OptionsOpaque ==
    /\ [](WriteDone => <<cur.ret, mError[cur.self], files[cur.fileName]>> = WriteOutcome)
    /\ [][pc = "idle" /\ cur'.op \in {"read", "write"} =>
             \A self \in FormatIds, fileName \in Paths :
                /\ \A m \in MapIds, options \in Options :
                      WriteCall(self, m, fileName, options)
                         => cur'.arguments = <<m, fileName, options>>
                /\ ReadCall(self, fileName)
                      => cur'.arguments = <<fileName>> /\ cur'.fileName = fileName]_vars

\* A write() called with the options 1 whose script returned no text and no
\* bytes: it has failed as it does with the options 0.
C18_Witness ==
    /\ WriteDone
    /\ cur.arguments[3] = 1
    /\ cur.resultValue = Undefined
    /\ cur.ret = "false"
    /\ mError[cur.self] = InvalidReturnMsg

\* C20: read() and write() call the property whatever it is.  A write() of a
\* format whose write is not callable gets undefined from the call: it fails
\* at the classification, returns false with the invalid-return-value message
\* in lastError and leaves the destination as it was; a read() of a format
\* whose read is not callable returns no model.
C20_NoCapabilityCheck ==
    /\ WriteDone /\ ~isCallable(mObject[cur.self].write) =>
          /\ cur.resultValue = Undefined
          /\ cur.steps = <<"call", "noerror">>
          /\ cur.ret = "false"
          /\ mError[cur.self] = InvalidReturnMsg
          /\ files[cur.fileName] = cur.pre
    /\ ReadDone /\ ~isCallable(mObject[cur.self].read) =>
          /\ cur.resultValue = Undefined
          /\ cur.ret = "null"
          /\ cur.model = NoCall.model

\* A format stored a file, the script then removed its write function, and a
\* further write() has failed with the file as it was.
C20_Witness ==
    /\ WriteDone
    /\ mObject[cur.self].write = Undefined
    /\ cur.pre # NoFile
    /\ cur.ret = "false"
    /\ mError[cur.self] = InvalidReturnMsg
    /\ files[cur.fileName] = cur.pre

====
